---- MODULE Spec2Model ----
(***************************************************************************)
(* Model of the per-run event log of internals/runtime/log.go: one         *)
(* EventLog object at a time on one log file, its writer goroutine, the    *)
(* goroutines calling the Append* methods and the goroutines calling       *)
(* Close.  The twelve Append* methods share one body (closed check,        *)
(* request with a one-slot reply channel, select between enqueue and the   *)
(* close signal, wait for the reply); a request is modelled by its         *)
(* identity, by the event type and phase the caller passed and by whether  *)
(* its event can be JSON-encoded.                                          *)
(*                                                                         *)
(* The engine of internals/runtime/engine.go is modelled next to it: the   *)
(* goroutines calling StartRun, the command channel and the run loop with  *)
(* its run-handle table.                                                   *)
(***************************************************************************)
EXTENDS Integers, Sequences, FiniteSets, TLC

\* ---------------------------------------------------------------- bounds
NumCallers == 2      \* goroutines that call Append*
NumClosers == 2      \* goroutines that call Close
MaxReqs    == 2      \* Append* calls made in one behaviour, all sessions
MaxOpens   == 2      \* OpenEventLog calls made in one behaviour
QueueCap   == 2      \* scaled capacity of appendCh (64 in log.go:208)
MaxInitLen == 2      \* lines of the file found by the first open
MaxInitSeq == 2      \* largest seq in a line found by the first open
MaxPhaseArg == 5     \* largest phase number passed to a step Append* call
MaxStepReqs == 4     \* AppendStepStarted calls made in one behaviour
NumQueueCallers == 3 \* goroutines appending at once, more than QueueCap
MaxQueueReqs == 3    \* Append* calls they make in one behaviour
NumSavers == 2       \* processes that call save_etrade_token
NumTokens == 2       \* distinct tokens passed to save_etrade_token
TokenLen == 2        \* pieces in which a token's bytes reach the file
MaxSaves == 2        \* save_etrade_token calls made in one behaviour
NumStarters == 2     \* goroutines that call Engine.StartRun
MaxStarts  == 2      \* StartRun calls made in one behaviour
NumRunIds  == 2      \* distinct values generateRunID can return
CmdCap     == 1      \* scaled capacity of Engine.cmdCh (64 in engine.go:57)

Callers == 1..NumCallers
QueueCallers == 1..NumQueueCallers
AllCallers == Callers \cup QueueCallers
Closers == 1..NumClosers
ReqIds  == 1..(IF MaxReqs > MaxStepReqs THEN MaxReqs ELSE MaxStepReqs)
              \cup 1..MaxQueueReqs
Starters == 1..NumStarters
CallIds == 1..MaxStarts
RunIds  == 1..NumRunIds

VARIABLES
    file,        \* the log file on disk: sequence of lines
    buf,         \* bufio.Writer: lines encoded but not yet flushed
    handle,      \* "none" | "open": whether an EventLog object exists
    openErr,     \* result of the last OpenEventLog: 0 = nil, n = "line n: ..."
    opens,       \* number of OpenEventLog calls so far
    nextSeq,     \* EventLog.nextSeq
    appendCh,    \* EventLog.appendCh: queued request ids, oldest first
    closeCh,     \* TRUE once close(l.closeCh) has run
    doneCh,      \* TRUE once the writer goroutine has closed doneCh
    closed,      \* EventLog.closed (atomic.Bool)
    fileOpen,    \* the write handle l.file is open
    writerErr,   \* bufio.Writer's sticky error after a failed flush
    wpc,         \* writer goroutine: "none" | "select" | "process" | "reply" | "exited"
    draining,    \* writer goroutine is inside the case <-l.closeCh loop
    cur,         \* request the writer holds (0 = none)
    curErr,      \* result of processRequest for cur
    cpc,         \* caller goroutine: "idle" | "select" | "wait"
    creq,        \* request id of the caller's current Append* call
    resultCh,    \* per request: the one-slot reply channel
    kpc,         \* closer goroutine: "idle" | "signal" | "wait" | "done"
    kret,        \* return value of the closer's Close call
    issued,      \* number of Append* calls started so far
    enc,         \* per request: its event can be JSON-encoded
    ev,          \* per request: the event type and phase the caller passed
    ret,         \* per request: return value of its Append* call
    assigned,    \* per request: the seq processRequest gave it (0 = none)
    enq,         \* request ids in the order they entered appendCh
    pred,        \* per request: the calls that had returned when it started
    queuedAtClose, \* ids in appendCh when the winning Close was called
    fresh,       \* the first open found an absent or empty file
    failed,      \* some processRequest returned an error
    behindFail,  \* ids that were in appendCh when a processRequest failed
    sess,        \* per request: the number of the open it was made on
    startedShut, \* requests whose call started after Close had returned
    kafter,      \* per closer: its call started after a Close had returned
    cmdCh,       \* Engine.cmdCh: queued StartRunCmd (call ids), oldest first
    runs,        \* the run loop's table: RunID -> RunHandle
    epc,         \* run loop goroutine: "running" | "panicked"
    spc,         \* StartRun caller goroutine: "idle" | "send" | "wait"
    scall,       \* call id of the caller's current StartRun call
    calls,       \* number of StartRun calls started so far
    croot,       \* per call: the workspaceRoot argument
    startCh,     \* per call: the one-slot ResultCh of its command
    nreplies,    \* per call: number of results sent on its ResultCh
    sret,        \* per call: what StartRun returned
    gen,         \* the ID generated by the last handleStartRun (0 = none)
    pa,          \* phase functions: the phase argument (from)
    pb,          \* phase functions: the second phase argument (to)
    pres,        \* phase functions: the result of each call made so far
    disk,        \* credentials directory: path -> file content
    tpc,         \* save_etrade_token: each saver's position
    ttok,        \* save_etrade_token: the token of a saver's running call
    tpath,       \* save_etrade_token: tempPath of a saver's running call
    nsaves,      \* number of save_etrade_token calls made
    lpc,         \* load_etrade_token: the loader's position
    lret,        \* load_etrade_token: what the last call returned
    lastSaved,   \* history: the token of the last save that returned
    mfiles,      \* several logs: log path -> the lines of that file
    mopen,       \* several logs: run -> OpenEventLog has returned its log
    mnext,       \* several logs: run -> nextSeq of its log
    mq,          \* several logs: run -> appendCh of its log
    mclosed,     \* several logs: run -> closed flag of its log
    mreqs        \* several logs: run -> Append* calls made on its log

vars == <<file, buf, handle, openErr, opens, nextSeq, appendCh, closeCh,
          doneCh, closed, fileOpen, writerErr, wpc, draining, cur, curErr,
          cpc, creq, resultCh, kpc, kret, issued, enc, ev, ret, assigned, enq,
          pred, queuedAtClose, fresh, failed, behindFail, sess, startedShut,
          kafter, cmdCh, runs, epc, spc, scall, calls, croot, startCh, nreplies,
          sret, gen, pa, pb, pres, disk, tpc, ttok, tpath, nsaves, lpc,
          lret, lastSaved, mfiles, mopen, mnext, mq, mclosed, mreqs>>

runVars == <<mfiles, mopen, mnext, mq, mclosed, mreqs>>

tokVars == <<disk, tpc, ttok, tpath, nsaves, lpc, lret, lastSaved>>

pureVars == <<pa, pb, pres>>

engVars == <<cmdCh, runs, epc, spc, scall, calls, croot, startCh, nreplies,
             sret, gen>>

eventLogVars ==
    <<file, buf, handle, openErr, opens, nextSeq, appendCh, closeCh, doneCh,
      closed, fileOpen, writerErr, wpc, draining, cur, curErr, cpc, creq,
      resultCh, kpc, kret, issued, enc, ev, ret, assigned, enq, pred,
      queuedAtClose, fresh, failed, behindFail, sess, startedShut, kafter>>

logVars  == <<nextSeq, appendCh, closeCh, doneCh, closed, fileOpen,
              writerErr, wpc, draining, cur, curErr>>
histVars == <<issued, enc, ev, ret, assigned, enq, pred, queuedAtClose, fresh,
              failed, behindFail, sess, startedShut, kafter>>

\* ----------------------------------------------------------------- lines
\* A line of the file as scanLastSeq sees it: json = it unmarshals into the
\* envelope; seq = the value of its "seq" key (0 when the key is missing,
\* the zero value of the envelope); id = the request that produced it
\* (0 for a line that was in the file before the first open); typ, run,
\* phase and path = the "type", "run_id", "phase" and "path" keys of the
\* event, which scanLastSeq does not look at.
BadLine ==
    [json |-> FALSE, seq |-> 0, id |-> 0, typ |-> "", run |-> "",
     phase |-> 0, path |-> ""]
OldLine(seq) ==
    [json |-> TRUE, seq |-> seq, id |-> 0, typ |-> "old", run |-> "",
     phase |-> 0, path |-> ""]

InitLines == {BadLine} \cup {OldLine(s) : s \in -1..MaxInitSeq}
InitFiles == UNION {[1..n -> InitLines] : n \in 0..MaxInitLen}

Range(s) == {s[i] : i \in 1..Len(s)}

\* ---------------------------------------------------------------- events
\* The twelve event types, one Append* method each.
StepTypes == {"step.started", "step.finished", "step.failed"}
EventTypes ==
    {"run.started", "run.finished", "run.failed"} \cup StepTypes \cup
    {"llm.requested", "llm.responded", "tool.called", "tool.returned",
     "tool.failed", "artifact.created"}

\* Phase numbers: 1..4 are the phases; a caller may pass any positive
\* number (a number <= 0 fails the formatter's assertion and stops the
\* process before anything is written).
MinPhase == 1
MaxPhase == 4
PhaseArgs == 1..MaxPhaseArg

IsValid(p) == p >= MinPhase /\ p <= MaxPhase

\* from == to: retry; forward by exactly one; nothing else.
IsValidTransition_AnyForward(from, to) == to >= from
IsValidTransition(from, to) ==
    IF from = to THEN TRUE
    ELSE IF to > from THEN to = from + 1
    ELSE FALSE

\* Phase.String: the name of a valid phase; panics on any other value.
PhaseNames ==
    <<"data_ingestion", "signal_generation", "risk_validation",
      "order_execution">>
Panic == [st |-> "panic", phase |-> 0, str |-> ""]
String(p) ==
    IF p = 1 THEN [st |-> "ok", phase |-> 0, str |-> PhaseNames[1]]
    ELSE IF p = 2 THEN [st |-> "ok", phase |-> 0, str |-> PhaseNames[2]]
    ELSE IF p = 3 THEN [st |-> "ok", phase |-> 0, str |-> PhaseNames[3]]
    ELSE IF p = 4 THEN [st |-> "ok", phase |-> 0, str |-> PhaseNames[4]]
    ELSE Panic

\* ParsePhase: the phase of a name; panics on any other string.
ParsePhase(str) ==
    IF str = "data_ingestion" THEN [st |-> "ok", phase |-> 1, str |-> ""]
    ELSE IF str = "signal_generation"
         THEN [st |-> "ok", phase |-> 2, str |-> ""]
    ELSE IF str = "risk_validation"
         THEN [st |-> "ok", phase |-> 3, str |-> ""]
    ELSE IF str = "order_execution"
         THEN [st |-> "ok", phase |-> 4, str |-> ""]
    ELSE Panic

\* tryParsePhase: as ParsePhase, with an error instead of the panic.
tryParsePhase(str) ==
    IF ParsePhase(str).st = "ok" THEN ParsePhase(str)
    ELSE [st |-> "err", phase |-> 0, str |-> ""]

\* JSON values: a string or a number.
JString(str) == [kind |-> "string", str |-> str, num |-> 0]
JNumber(n) == [kind |-> "number", str |-> "", num |-> n]
JNone == [kind |-> "none", str |-> "", num |-> 0]

\* Phase.MarshalJSON: the JSON string of the name; an error on an invalid
\* phase.
MarshalJSON_Number(p) ==
    IF ~IsValid(p) THEN [st |-> "err", json |-> JNone]
    ELSE [st |-> "ok", json |-> JNumber(p)]
MarshalJSON(p) ==
    IF ~IsValid(p) THEN [st |-> "err", json |-> JNone]
    ELSE [st |-> "ok", json |-> JString(String(p).str)]

\* Phase.UnmarshalJSON: a JSON string goes through tryParsePhase; a JSON
\* number is stored and then checked with IsValid.
UnmarshalJSON(j) ==
    IF j.kind = "string" THEN tryParsePhase(j.str)
    ELSE IF j.kind = "number"
         THEN [st |-> IF IsValid(j.num) THEN "ok" ELSE "err",
               phase |-> j.num, str |-> ""]
    ELSE [st |-> "err", phase |-> 0, str |-> ""]

\* The target *p after p.UnmarshalJSON(j) when it held target before: the
\* string path assigns only the parsed phase; the numeric path assigns
\* Phase(n) before it checks IsValid; otherwise nothing is assigned.
UnmarshalTarget(target, j) ==
    IF j.kind = "string"
    THEN IF tryParsePhase(j.str).st = "ok" THEN tryParsePhase(j.str).phase
         ELSE target
    ELSE IF j.kind = "number" THEN j.num
    ELSE target

\* IsValidTransition as called: it asserts that both phases are valid.
CallIsValidTransition(from, to) ==
    IF ~IsValid(from) \/ ~IsValid(to) THEN [st |-> "panic", val |-> FALSE]
    ELSE [st |-> "ok", val |-> IsValidTransition(from, to)]

\* FormatStepStarted, FormatStepFinished, FormatStepFailed with a positive
\* seq and non-empty run and step IDs: assert.Gt(int64(phase), 0), then the
\* event of type t holding the phase.
FormatStep(t, ph) ==
    IF ~(ph > 0) THEN [st |-> "panic", typ |-> "", phase |-> 0]
    ELSE [st |-> "ok", typ |-> t, phase |-> ph]

\* Phase values passed to the phase functions.
PhaseVals == -1..MaxPhaseArg

NoRes == [st |-> "none"]
Unapplied ==
    [trans |-> NoRes, fmt |-> [t \in StepTypes |-> NoRes], rt |-> NoRes,
     marshal |-> NoRes, jrt |-> NoRes, unnum |-> NoRes, into |-> NoRes]

\* JSON documents handed to UnmarshalJSON: a phase name, another string,
\* the number n, something that is neither (true, 1.5, an object).
UnknownName == "unknown"
JsonInputs(n) ==
    {JString(PhaseNames[i]) : i \in 1..Len(PhaseNames)}
        \cup {JString(UnknownName), JNumber(n), JNone}

\* IsValidTransition(pa, pb)
ApplyIsValidTransition ==
    /\ pres.trans = NoRes
    /\ pres' = [pres EXCEPT !.trans = CallIsValidTransition(pa, pb)]
    /\ UNCHANGED <<pa, pb, eventLogVars, engVars, tokVars, runVars>>

\* FormatStepStarted / FormatStepFinished / FormatStepFailed (..., pa)
ApplyFormatStep ==
    /\ \E t \in StepTypes :
         /\ pres.fmt[t] = NoRes
         /\ pres' = [pres EXCEPT !.fmt[t] = FormatStep(t, pa)]
    /\ UNCHANGED <<pa, pb, eventLogVars, engVars, tokVars, runVars>>

\* ParsePhase(pa.String())
ApplyStringParse ==
    /\ pres.rt = NoRes
    /\ pres' = [pres EXCEPT !.rt = IF String(pa).st = "ok"
                                    THEN ParsePhase(String(pa).str)
                                    ELSE Panic]
    /\ UNCHANGED <<pa, pb, eventLogVars, engVars, tokVars, runVars>>

\* data, err := json.Marshal(pa); json.Unmarshal(data, &p)
ApplyMarshalUnmarshal ==
    /\ pres.marshal = NoRes
    /\ pres' = [pres EXCEPT
                  !.marshal = MarshalJSON(pa),
                  !.jrt = IF MarshalJSON(pa).st = "ok"
                          THEN UnmarshalJSON(MarshalJSON(pa).json)
                          ELSE NoRes]
    /\ UNCHANGED <<pa, pb, eventLogVars, engVars, tokVars, runVars>>

\* json.Unmarshal of the number pa into a Phase
ApplyUnmarshalNumber ==
    /\ pres.unnum = NoRes
    /\ pres' = [pres EXCEPT !.unnum = UnmarshalJSON(JNumber(pa))]
    /\ UNCHANGED <<pa, pb, eventLogVars, engVars, tokVars, runVars>>

\* p := Phase(pb); err := p.UnmarshalJSON(j)
ApplyUnmarshalInto ==
    /\ pres.into = NoRes
    /\ \E j \in JsonInputs(pa) :
         pres' = [pres EXCEPT !.into =
                    [st |-> UnmarshalJSON(j).st, kind |-> j.kind,
                     before |-> pb, after |-> UnmarshalTarget(pb, j)]]
    /\ UNCHANGED <<pa, pb, eventLogVars, engVars, tokVars, runVars>>

\* Token storage: processes calling save_etrade_token and one calling
\* load_etrade_token on the same workspace root.  A token is written in
\* TokenLen pieces; a file holds the first n pieces of token tok.
Savers == 1..NumSavers
Tokens == 1..NumTokens
FinalPath == 0
Absent == [tok |-> 0, n |-> -1]
Data(tok, n) == [tok |-> IF n = 0 THEN 0 ELSE tok, n |-> n]
Complete(f) == f.n = TokenLen

\* os.CreateTemp(credentialsDir, "etrade_tokens.*.tmp"): a name no file
\* has yet, in the credentials directory.
Paths == {FinalPath} \cup (1..MaxSaves)
CreateTemp_Final == FinalPath
CreateTemp ==
    CHOOSE p \in Paths \ {FinalPath} :
        /\ disk[p] = Absent
        /\ \A q \in Paths \ {FinalPath} : disk[q] = Absent => p <= q

NoToken == [st |-> "none", tok |-> 0]

\* The credentials directory before any call: the token file is absent or
\* holds a complete token saved earlier.
InitTokenStorage ==
    /\ lastSaved \in {0} \cup Tokens
    /\ disk = [p \in Paths |->
                 IF p = FinalPath /\ lastSaved # 0
                 THEN Data(lastSaved, TokenLen) ELSE Absent]
    /\ tpc = [s \in Savers |-> "idle"]
    /\ ttok = [s \in Savers |-> 0]
    /\ tpath = [s \in Savers |-> FinalPath]
    /\ nsaves = 0
    /\ lpc = "idle"
    /\ lret = NoToken

\* save_etrade_token up to finalPath: the assertions on the token,
\* MkdirAll and MarshalIndent succeed.
SaveStart(s) ==
    /\ tpc[s] = "idle"
    /\ nsaves < MaxSaves
    /\ \E t \in Tokens : ttok' = [ttok EXCEPT ![s] = t]
    /\ nsaves' = nsaves + 1
    /\ tpc' = [tpc EXCEPT ![s] = "create"]
    /\ UNCHANGED <<disk, tpath, lpc, lret, lastSaved, eventLogVars, engVars,
                   pureVars, runVars>>

\* tempFile, err := os.CreateTemp(...); tempPath := tempFile.Name()
SaveCreateTemp(s) ==
    /\ tpc[s] = "create"
    /\ \/ /\ tpath' = [tpath EXCEPT ![s] = CreateTemp]
          /\ disk' = [disk EXCEPT ![CreateTemp] = Data(0, 0)]
          /\ tpc' = [tpc EXCEPT ![s] = "write"]
       \/ /\ tpc' = [tpc EXCEPT ![s] = "panicked"]
          /\ UNCHANGED <<disk, tpath>>
    /\ UNCHANGED <<ttok, nsaves, lpc, lret, lastSaved, eventLogVars, engVars,
                   pureVars, runVars>>

\* _, err = tempFile.Write(data): all the pieces, or an error after some
\* of them.
SaveWrite(s) ==
    /\ tpc[s] = "write"
    /\ \E n \in 0..TokenLen :
         /\ disk' = [disk EXCEPT ![tpath[s]] = Data(ttok[s], n)]
         /\ tpc' = [tpc EXCEPT ![s] = IF n = TokenLen THEN "close"
                                      ELSE "cleanup"]
    /\ UNCHANGED <<ttok, tpath, nsaves, lpc, lret, lastSaved, eventLogVars,
                   engVars, pureVars, runVars>>

\* err = tempFile.Close()
SaveClose(s) ==
    /\ tpc[s] = "close"
    /\ \E ok \in BOOLEAN :
         tpc' = [tpc EXCEPT ![s] = IF ok THEN "chmod" ELSE "cleanup"]
    /\ UNCHANGED <<disk, ttok, tpath, nsaves, lpc, lret, lastSaved,
                   eventLogVars, engVars, pureVars, runVars>>

\* err = os.Chmod(tempPath, 0600)
SaveChmod(s) ==
    /\ tpc[s] = "chmod"
    /\ \E ok \in BOOLEAN :
         tpc' = [tpc EXCEPT ![s] = IF ok THEN "rename" ELSE "cleanup"]
    /\ UNCHANGED <<disk, ttok, tpath, nsaves, lpc, lret, lastSaved,
                   eventLogVars, engVars, pureVars, runVars>>

\* os.Rename(oldpath, newpath): newpath takes oldpath's file in one step.
Rename(d, oldpath, newpath) ==
    IF oldpath = newpath THEN d
    ELSE [d EXCEPT ![newpath] = d[oldpath], ![oldpath] = Absent]

\* err = os.Rename(tempPath, finalPath); on success the call returns.
SaveRename(s) ==
    /\ tpc[s] = "rename"
    /\ \/ /\ disk' = Rename(disk, tpath[s], FinalPath)
          /\ lastSaved' = ttok[s]
          /\ tpc' = [tpc EXCEPT ![s] = "idle"]
          /\ ttok' = [ttok EXCEPT ![s] = 0]
          /\ tpath' = [tpath EXCEPT ![s] = FinalPath]
       \/ /\ tpc' = [tpc EXCEPT ![s] = "cleanup"]
          /\ UNCHANGED <<disk, lastSaved, ttok, tpath>>
    /\ UNCHANGED <<nsaves, lpc, lret, eventLogVars, engVars, pureVars,
                   runVars>>

\* The error paths: os.Remove(tempPath), then the assertion panics.
SaveCleanup(s) ==
    /\ tpc[s] = "cleanup"
    /\ disk' = [disk EXCEPT ![tpath[s]] = Absent]
    /\ tpc' = [tpc EXCEPT ![s] = "panicked"]
    /\ ttok' = [ttok EXCEPT ![s] = 0]
    /\ tpath' = [tpath EXCEPT ![s] = FinalPath]
    /\ UNCHANGED <<nsaves, lpc, lret, lastSaved, eventLogVars, engVars,
                   pureVars, runVars>>

\* The saving process is killed in the middle of a call.
SaveKilled(s) ==
    /\ tpc[s] \notin {"idle", "panicked"}
    /\ tpc' = [tpc EXCEPT ![s] = "panicked"]
    /\ ttok' = [ttok EXCEPT ![s] = 0]
    /\ tpath' = [tpath EXCEPT ![s] = FinalPath]
    /\ UNCHANGED <<disk, nsaves, lpc, lret, lastSaved, eventLogVars, engVars,
                   pureVars, runVars>>

\* load_etrade_token: os.Stat(tokenPath); nil when the file does not exist.
LoadStat ==
    /\ lpc = "idle"
    /\ IF disk[FinalPath] = Absent
       THEN lret' = [st |-> "nil", tok |-> 0] /\ UNCHANGED lpc
       ELSE lpc' = "read" /\ UNCHANGED lret
    /\ UNCHANGED <<disk, tpc, ttok, tpath, nsaves, lastSaved, eventLogVars,
                   engVars, pureVars, runVars>>

\* load_etrade_token: os.ReadFile, json.Unmarshal and the assertions on
\* the fields; the token when the file holds a complete one.
LoadRead ==
    /\ lpc = "read"
    /\ lret' = IF Complete(disk[FinalPath])
               THEN [st |-> "ok", tok |-> disk[FinalPath].tok]
               ELSE [st |-> "panic", tok |-> 0]
    /\ lpc' = "idle"
    /\ UNCHANGED <<disk, tpc, ttok, tpath, nsaves, lastSaved, eventLogVars,
                   engVars, pureVars, runVars>>

\* What a caller passes to an Append* method, as far as the log's behaviour
\* depends on it: the method (event type) and, for the step methods, the
\* phase (0 stands for "has no phase").
\* The run the log was opened for, and the run IDs a caller may pass.
LogRunID == "run-A"
RunArgs == {"run-A", "run-B"}

\* Paths a caller may pass to AppendArtifactCreated, for a run whose
\* workspace root is /ws.
\* LongPath stands for a relative path inside the workspace of 70000
\* characters: its line is longer than bufio.MaxScanTokenSize (64 KiB).
LongPath == "sub/...(70000 characters)"
ArtifactPaths == {"sub/ok.txt", "../escape.txt", "/etc/passwd", LongPath}

Payload(t, r, ph, path) ==
    [typ |-> t, run |-> r, phase |-> ph, path |-> path]
Payloads ==
    {Payload(t, r, 0, "") :
        t \in EventTypes \ (StepTypes \cup {"artifact.created"}),
        r \in RunArgs} \cup
    {Payload(t, r, ph, "") :
        t \in StepTypes, r \in RunArgs, ph \in PhaseArgs} \cup
    {Payload("artifact.created", r, 0, path) :
        r \in RunArgs, path \in ArtifactPaths}
NoEvent == Payload("none", "", 0, "")

\* json.Encoder.Encode of the formatted event fails exactly when
\* Phase.MarshalJSON does: a step event whose phase is not one of 1..4.
Encodable_Always(p) == TRUE
Encodable(p) == p.typ \notin StepTypes \/ IsValid(p.phase)

\* The two payloads the concurrency specification draws from: one event
\* that encodes and one that does not.
SamplePayloads ==
    {Payload("run.started", LogRunID, 0, ""),
     Payload("step.started", LogRunID, MaxPhase + 1, "")}

\* The event processRequest builds for request p with sequence number seq:
\* the switch on the request type calls that type's formatter, which sets
\* Type and Seq and copies the fields of the request.
Format_SwapTags(p, seq) ==
    [typ |-> IF p.typ = "step.finished" THEN "step.failed"
             ELSE IF p.typ = "step.failed" THEN "step.finished"
             ELSE p.typ,
     seq |-> seq, run |-> p.run,
     phase |-> IF p.typ \in StepTypes THEN p.phase ELSE 0,
     path |-> IF p.typ = "artifact.created" THEN p.path ELSE ""]
Format(p, seq) ==
    [typ |-> CASE p.typ = "run.started" -> "run.started"
               [] p.typ = "run.finished" -> "run.finished"
               [] p.typ = "run.failed" -> "run.failed"
               [] p.typ = "step.started" -> "step.started"
               [] p.typ = "step.finished" -> "step.finished"
               [] p.typ = "step.failed" -> "step.failed"
               [] p.typ = "llm.requested" -> "llm.requested"
               [] p.typ = "llm.responded" -> "llm.responded"
               [] p.typ = "tool.called" -> "tool.called"
               [] p.typ = "tool.returned" -> "tool.returned"
               [] p.typ = "tool.failed" -> "tool.failed"
               [] p.typ = "artifact.created" -> "artifact.created",
     seq |-> seq, run |-> p.run,
     phase |-> IF p.typ \in StepTypes THEN p.phase ELSE 0,
     path |-> IF p.typ = "artifact.created" THEN p.path ELSE ""]

\* The line json.Encoder writes for request id with sequence number seq.
EventLine(id, seq) ==
    LET e == Format(ev[id], seq) IN
    [json |-> TRUE, seq |-> e.seq, id |-> id, typ |-> e.typ, run |-> e.run,
     phase |-> e.phase, path |-> e.path]

\* ---------------------------------------------------------------- engine
\* Workspace roots a caller may pass, on a file system that holds the
\* directory /ws, the symbolic link /link -> /ws, the symbolic link
\* /dangling -> /missing, and the directory ws under the working directory.
Roots == {"", "  ", "ws", "/missing", "/dangling", "/ws", "/ws/", "/link"}
NoRoot == "none"

\* strings.TrimSpace
TrimSpace(str) == IF str = "  " THEN "" ELSE str

\* filepath.IsAbs: the path starts with a slash.
IsAbs_Any(path) == TRUE
IsAbs(path) == path \in {"/missing", "/dangling", "/ws", "/ws/", "/link"}

\* filepath.Clean: drops the trailing slash; the empty path becomes ".".
Clean(path) ==
    IF path = "/ws/" THEN "/ws" ELSE IF path = "" THEN "." ELSE path

\* filepath.EvalSymlinks: the path with links resolved; an error when the
\* path or the target of a link does not exist.
EvalSymlinks(path) ==
    IF path \in {"/ws", "ws", "."} THEN [err |-> FALSE, path |-> path]
    ELSE IF path = "/link" THEN [err |-> FALSE, path |-> "/ws"]
    ELSE [err |-> TRUE, path |-> ""]

\* validate.Workspace_root: not_empty, then absolute_path.
Workspace_root(path) ==
    IF TrimSpace(path) = "" THEN "must not be empty"
    ELSE IF ~IsAbs(path) THEN "must be absolute"
    ELSE "nil"

normalizeWorkspaceRoot(path) ==
    LET cleaned == Clean(path) IN
    IF ~IsAbs(cleaned) THEN [err |-> "must be absolute", path |-> ""]
    ELSE IF EvalSymlinks(cleaned).err
         THEN [err |-> "doesn't exist", path |-> ""]
    ELSE IF ~IsAbs(EvalSymlinks(cleaned).path)
         THEN [err |-> "must be absolute", path |-> ""]
    ELSE [err |-> "nil", path |-> EvalSymlinks(cleaned).path]

\* RunID values; NoId is the empty RunID of an error result.  generateRunID
\* draws 122 random bits: any value may come out, a used one included.
NoId == 0
generateRunID == RunIds

PhaseDataIngestion == 1
\* make(map[Phase]int), make(map[Phase]bool): a map with no keys.
EmptyMap == <<>>
NoHandle ==
    [ID |-> NoId, LastSeq |-> 0, Terminal |-> FALSE, Phase |-> 0,
     WorkspaceRoot |-> "", Attempts |-> EmptyMap, PhaseDone |-> EmptyMap]
\* &RunHandle{ID, Phase, WorkspaceRoot, Attempts, PhaseDone}: LastSeq and
\* Terminal keep their zero values.
RunHandle_Stale(id, root) ==
    [ID |-> id, LastSeq |-> 1, Terminal |-> FALSE,
     Phase |-> PhaseDataIngestion, WorkspaceRoot |-> root,
     Attempts |-> EmptyMap, PhaseDone |-> EmptyMap]
RunHandle(id, root) ==
    [ID |-> id, LastSeq |-> 0, Terminal |-> FALSE,
     Phase |-> PhaseDataIngestion, WorkspaceRoot |-> root,
     Attempts |-> EmptyMap, PhaseDone |-> EmptyMap]

\* StartRunResult
Result(id, err) == [ID |-> id, Err |-> err]
NoResult == [ID |-> NoId, Err |-> "unreturned"]

\* if _, exists := runs[id]; exists { panic }
Exists_Never(table, id) == FALSE
Exists(table, id) == table[id] # NoHandle

\* cmd.ResultCh <- result
Send_Drop(ch, res) == ch
Send(ch, res) == Append(ch, res)

\* StartRun is called: resultCh := make(chan StartRunResult, 1)
StartRun(s) ==
    /\ epc = "running"
    /\ spc[s] = "idle"
    /\ calls < MaxStarts
    /\ \E root \in Roots :
         LET k == calls + 1 IN
         /\ calls' = k
         /\ croot' = [croot EXCEPT ![k] = root]
         /\ scall' = [scall EXCEPT ![s] = k]
         /\ spc' = [spc EXCEPT ![s] = "send"]
    /\ UNCHANGED <<cmdCh, runs, epc, startCh, nreplies, sret, gen,
                   eventLogVars, pureVars, tokVars, runVars>>

\* StartRun: e.cmdCh <- StartRunCmd{...} (blocks while cmdCh is full)
StartRunSend(s) ==
    /\ epc = "running"
    /\ spc[s] = "send"
    /\ Len(cmdCh) < CmdCap
    /\ cmdCh' = Append(cmdCh, scall[s])
    /\ spc' = [spc EXCEPT ![s] = "wait"]
    /\ UNCHANGED <<runs, epc, scall, calls, croot, startCh, nreplies, sret,
                   gen, eventLogVars, pureVars, tokVars, runVars>>

\* StartRun: result := <-resultCh; return result.ID, result.Err
StartRunReturn(s) ==
    /\ epc = "running"
    /\ spc[s] = "wait"
    /\ startCh[scall[s]] # <<>>
    /\ sret' = [sret EXCEPT ![scall[s]] = Head(startCh[scall[s]])]
    /\ startCh' = [startCh EXCEPT ![scall[s]] = Tail(@)]
    /\ spc' = [spc EXCEPT ![s] = "idle"]
    /\ scall' = [scall EXCEPT ![s] = 0]
    /\ UNCHANGED <<cmdCh, runs, epc, calls, croot, nreplies, gen,
                   eventLogVars, pureVars, tokVars, runVars>>

\* The reply of handleStartRun to call k.
Reply(k, res) ==
    /\ startCh' = [startCh EXCEPT ![k] = Send(@, res)]
    /\ nreplies' = [nreplies EXCEPT
                       ![k] = IF Send(startCh[k], res) # startCh[k]
                              THEN @ + 1 ELSE @]

\* runLoop: for cmd := range e.cmdCh { handleStartRun(runs, cmd) }
handleStartRun ==
    /\ epc = "running"
    /\ cmdCh # <<>>
    /\ cmdCh' = Tail(cmdCh)
    /\ LET k == Head(cmdCh)
           root == croot[k]
           norm == normalizeWorkspaceRoot(root)
       IN
       IF Workspace_root(root) # "nil"
       THEN /\ Reply(k, Result(NoId, Workspace_root(root)))
            /\ gen' = NoId
            /\ UNCHANGED <<runs, epc>>
       ELSE IF norm.err # "nil"
       THEN /\ Reply(k, Result(NoId, norm.err))
            /\ gen' = NoId
            /\ UNCHANGED <<runs, epc>>
       ELSE \E id \in generateRunID :
            /\ gen' = id
            /\ IF Exists(runs, id)
               THEN \* panic("run ID collision"): the process stops
                    /\ epc' = "panicked"
                    /\ UNCHANGED <<runs, startCh, nreplies>>
               ELSE /\ runs' = [runs EXCEPT ![id] = RunHandle(id, norm.path)]
                    /\ Reply(k, Result(id, "nil"))
                    /\ UNCHANGED epc
    /\ UNCHANGED <<spc, scall, calls, croot, sret, eventLogVars, pureVars,
                   tokVars, runVars>>

\* ------------------------------------------------------------ scanLastSeq
\* The scan loop from line i on with lastSeq = last: err is the line number
\* named by the error (0 = nil error).
\* if envelope.Seq <= lastSeq { return error }
NotIncreasing_Lt(seq, last) == seq < last
NotIncreasing(seq, last) == seq <= last

\* One iteration of the scan loop on a line: json.Unmarshal into the
\* envelope, then the seq check; seq is lastSeq after the line.
ScanLine_SkipBad(line, last) ==
    IF ~line.json THEN [err |-> FALSE, seq |-> last]
    ELSE IF NotIncreasing(line.seq, last) THEN [err |-> TRUE, seq |-> 0]
    ELSE [err |-> FALSE, seq |-> line.seq]
ScanLine(line, last) ==
    IF ~line.json THEN [err |-> TRUE, seq |-> 0]
    ELSE IF NotIncreasing(line.seq, last) THEN [err |-> TRUE, seq |-> 0]
    ELSE [err |-> FALSE, seq |-> line.seq]

\* bufio.NewScanner(readFile): scanner.Scan() returns false on a line that
\* does not fit its buffer (bufio.ErrTooLong); the loop ends and
\* scanner.Err() makes scanLastSeq return an error that names no line.
TooLong(line) == line.path = LongPath
ReadError == -1

RECURSIVE ScanFrom(_, _, _)
ScanFrom(f, i, last) ==
    IF i > Len(f) THEN [err |-> 0, lastSeq |-> last]
    ELSE IF TooLong(f[i]) THEN [err |-> ReadError, lastSeq |-> 0]
    ELSE IF ScanLine(f[i], last).err THEN [err |-> i, lastSeq |-> 0]
    ELSE ScanFrom(f, i + 1, ScanLine(f[i], last).seq)

scanLastSeq(f) == ScanFrom(f, 1, 0)

\* Several EventLogs in one workspace, one per run ID, each with the
\* fields of EventLog; the writer's steps are taken whole.
\* logPath := filepath.Join(logDir, string(runID)+".jsonl")
LogPath_Shared(r) == [dir |-> ".aiplatform/logs", name |-> "events"]
LogPath(r) == [dir |-> ".aiplatform/logs", name |-> r]
LogPaths == {LogPath(r) : r \in RunArgs}
RunLine(r, seq) ==
    [json |-> TRUE, seq |-> seq, id |-> 0, typ |-> "run.started", run |-> r,
     phase |-> 0, path |-> ""]

InitRuns ==
    /\ mfiles = [p \in LogPaths |-> <<>>]
    /\ mopen = [r \in RunArgs |-> FALSE]
    /\ mnext = [r \in RunArgs |-> 0]
    /\ mq = [r \in RunArgs |-> <<>>]
    /\ mclosed = [r \in RunArgs |-> FALSE]
    /\ mreqs = [r \in RunArgs |-> 0]

\* ------------------------------------------------------------------ Init
InitLogEngine ==
    /\ file \in InitFiles
    /\ buf = <<>>
    /\ handle = "none"
    /\ openErr = 0
    /\ opens = 0
    /\ nextSeq = 0
    /\ appendCh = <<>>
    /\ closeCh = FALSE
    /\ doneCh = FALSE
    /\ closed = FALSE
    /\ fileOpen = FALSE
    /\ writerErr = FALSE
    /\ wpc = "none"
    /\ draining = FALSE
    /\ cur = 0
    /\ curErr = "nil"
    /\ cpc = [c \in AllCallers |-> "idle"]
    /\ creq = [c \in AllCallers |-> 0]
    /\ resultCh = [r \in ReqIds |-> "empty"]
    /\ kpc = [k \in Closers |-> "idle"]
    /\ kret = [k \in Closers |-> "none"]
    /\ issued = 0
    /\ enc = [r \in ReqIds |-> TRUE]
    /\ ev = [r \in ReqIds |-> NoEvent]
    /\ ret = [r \in ReqIds |-> "unissued"]
    /\ assigned = [r \in ReqIds |-> 0]
    /\ enq = <<>>
    /\ pred = [r \in ReqIds |-> {}]
    /\ queuedAtClose = {}
    /\ fresh = FALSE
    /\ failed = FALSE
    /\ behindFail = {}
    /\ sess = [r \in ReqIds |-> 0]
    /\ startedShut = {}
    /\ kafter = [k \in Closers |-> FALSE]
    /\ cmdCh = <<>>
    /\ runs = [id \in RunIds |-> NoHandle]
    /\ epc = "running"
    /\ spc = [s \in Starters |-> "idle"]
    /\ scall = [s \in Starters |-> 0]
    /\ calls = 0
    /\ croot = [k \in CallIds |-> NoRoot]
    /\ startCh = [k \in CallIds |-> <<>>]
    /\ nreplies = [k \in CallIds |-> 0]
    /\ sret = [k \in CallIds |-> NoResult]
    /\ gen = NoId

Init ==
    /\ InitLogEngine
    /\ pa = MinPhase /\ pb = MinPhase /\ pres = Unapplied
    /\ InitTokenStorage /\ lastSaved = 0
    /\ InitRuns

\* ---------------------------------------------------------- OpenEventLog
\* The Close call that won the closed flag has returned.
CloseReturned == \E k \in Closers : kpc[k] = "done" /\ kret[k] # "already"

\* The previous EventLog, if any, is out of use: its Close has returned and
\* no Append* or Close call on it is in flight.
ShutDown ==
    /\ handle = "open"
    /\ CloseReturned
    /\ \A k \in Closers : kpc[k] \in {"idle", "done"}
    /\ \A c \in AllCallers : cpc[c] = "idle"

ResumeSeq_One(f) == 1
ResumeSeq(f) == IF Len(f) = 0 THEN 1 ELSE scanLastSeq(f).lastSeq + 1

OpenEventLog ==
    /\ handle = "none" \/ ShutDown
    /\ opens < MaxOpens
    /\ opens' = opens + 1
    /\ fresh' = IF opens = 0 THEN Len(file) = 0 ELSE fresh
    /\ cpc' = [c \in AllCallers |-> "idle"]
    /\ creq' = [c \in AllCallers |-> 0]
    /\ kpc' = [k \in Closers |-> "idle"]
    /\ kret' = [k \in Closers |-> "none"]
    /\ queuedAtClose' = {}
    /\ buf' = <<>>
    /\ appendCh' = <<>>
    /\ closeCh' = FALSE
    /\ doneCh' = FALSE
    /\ closed' = FALSE
    /\ writerErr' = FALSE
    /\ draining' = FALSE
    /\ cur' = 0
    /\ curErr' = "nil"
    /\ IF Len(file) # 0 /\ scanLastSeq(file).err # 0
       THEN /\ openErr' = scanLastSeq(file).err
            /\ handle' = "none"
            /\ wpc' = "none"
            /\ nextSeq' = 0
            /\ fileOpen' = FALSE
       ELSE /\ openErr' = 0
            /\ handle' = "open"
            /\ wpc' = "select"
            /\ nextSeq' = ResumeSeq(file)
            /\ fileOpen' = TRUE
    /\ kafter' = [k \in Closers |-> FALSE]
    /\ UNCHANGED <<file, resultCh, issued, enc, ev, ret, assigned, enq, pred,
                   failed, behindFail, sess, startedShut,
                   engVars, pureVars, tokVars, runVars>>

\* --------------------------------------------------------------- Append*
Returned == {"nil", "encode", "flush", "closed", "closing"}

\* if l.closed.Load() { return error }; otherwise build the request.
ClosedCheck_Missing(flag) == FALSE
ClosedCheck(flag) == flag

AppendStartWith(c, p) ==
    /\ handle = "open"
    /\ cpc[c] = "idle"
    /\ LET id == issued + 1 IN
         /\ issued' = id
         /\ ev' = [ev EXCEPT ![id] = p]
         /\ enc' = [enc EXCEPT ![id] = Encodable(p)]
         /\ pred' = [pred EXCEPT ![id] = {r \in ReqIds : ret[r] \in Returned}]
         /\ sess' = [sess EXCEPT ![id] = opens]
         /\ startedShut' = IF CloseReturned THEN startedShut \cup {id}
                                             ELSE startedShut
         /\ IF ClosedCheck(closed)
            THEN /\ ret' = [ret EXCEPT ![id] = "closed"]
                 /\ UNCHANGED <<cpc, creq>>
            ELSE /\ ret' = [ret EXCEPT ![id] = "pending"]
                 /\ cpc' = [cpc EXCEPT ![c] = "select"]
                 /\ creq' = [creq EXCEPT ![c] = id]
    /\ UNCHANGED <<file, buf, handle, openErr, opens, logVars, resultCh,
                   kpc, kret, assigned, enq, queuedAtClose, fresh, failed,
                   behindFail, kafter,
                   engVars, pureVars, tokVars, runVars>>

AppendStart(c) ==
    /\ issued < MaxReqs
    /\ \E p \in SamplePayloads : AppendStartWith(c, p)

\* Any of the twelve Append* methods with any phase argument.
AppendEvent(c) ==
    /\ issued < MaxReqs
    /\ \E p \in Payloads : AppendStartWith(c, p)

\* AppendStepStarted with any of the four phases.
AppendStepStarted(c) ==
    /\ issued < MaxStepReqs
    /\ \E ph \in MinPhase..MaxPhase :
         AppendStartWith(c, Payload("step.started", LogRunID, ph, ""))

\* A send on a buffered channel goes through when the buffer has room.
HasRoom_Always(ch) == TRUE
HasRoom(ch) == Len(ch) < QueueCap

\* AppendRunStarted(LogRunID)
AppendRunStarted(c) ==
    /\ issued < MaxQueueReqs
    /\ AppendStartWith(c, Payload("run.started", LogRunID, 0, ""))

\* AppendArtifactCreated(LogRunID, path)
AppendArtifactCreated(c) ==
    /\ issued < MaxReqs
    /\ \E path \in ArtifactPaths :
         AppendStartWith(c, Payload("artifact.created", LogRunID, 0, path))

\* select: case l.appendCh <- req
AppendEnqueue(c) ==
    /\ cpc[c] = "select"
    /\ HasRoom(appendCh)
    /\ appendCh' = Append(appendCh, creq[c])
    /\ enq' = Append(enq, creq[c])
    /\ cpc' = [cpc EXCEPT ![c] = "wait"]
    /\ UNCHANGED <<file, buf, handle, openErr, opens, nextSeq, closeCh,
                   doneCh, closed, fileOpen, writerErr, wpc, draining, cur,
                   curErr, creq, resultCh, kpc, kret, issued, enc, ev, ret,
                   assigned, pred, queuedAtClose, fresh, failed, behindFail, sess,
                   startedShut, kafter,
                   engVars, pureVars, tokVars, runVars>>

\* select: case <-l.closeCh
AppendClosing(c) ==
    /\ cpc[c] = "select"
    /\ closeCh
    /\ ret' = [ret EXCEPT ![creq[c]] = "closing"]
    /\ cpc' = [cpc EXCEPT ![c] = "idle"]
    /\ creq' = [creq EXCEPT ![c] = 0]
    /\ UNCHANGED <<file, buf, handle, openErr, opens, logVars, resultCh,
                   kpc, kret, issued, enc, ev, assigned, enq, pred,
                   queuedAtClose, fresh, failed, behindFail, sess, startedShut, kafter,
                   engVars, pureVars, tokVars, runVars>>

\* return <-resultCh
AppendReturn(c) ==
    /\ cpc[c] = "wait"
    /\ resultCh[creq[c]] # "empty"
    /\ ret' = [ret EXCEPT ![creq[c]] = resultCh[creq[c]]]
    /\ resultCh' = [resultCh EXCEPT ![creq[c]] = "empty"]
    /\ cpc' = [cpc EXCEPT ![c] = "idle"]
    /\ creq' = [creq EXCEPT ![c] = 0]
    /\ UNCHANGED <<file, buf, handle, openErr, opens, logVars, kpc, kret,
                   issued, enc, ev, assigned, enq, pred, queuedAtClose, fresh,
                   failed, behindFail, sess, startedShut, kafter,
                   engVars, pureVars, tokVars, runVars>>

\* ------------------------------------------------------------ writerLoop
\* A receive from the buffered channel takes the oldest element.
Dequeue_Newest(q) == [req |-> q[Len(q)], rest |-> SubSeq(q, 1, Len(q) - 1)]
Dequeue(q) == [req |-> Head(q), rest |-> Tail(q)]

\* outer select: case req := <-l.appendCh
WriterRecv ==
    /\ wpc = "select"
    /\ ~draining
    /\ appendCh # <<>>
    /\ cur' = Dequeue(appendCh).req
    /\ appendCh' = Dequeue(appendCh).rest
    /\ wpc' = "process"
    /\ UNCHANGED <<file, buf, handle, openErr, opens, nextSeq, closeCh,
                   doneCh, closed, fileOpen, writerErr, draining, curErr,
                   cpc, creq, resultCh, kpc, kret, histVars,
                   engVars, pureVars, tokVars, runVars>>

\* What the writer does when it takes case <-l.closeCh: it enters the
\* drain loop (TRUE) instead of returning at once (FALSE).
DrainOnClose_Skip == FALSE
DrainOnClose == TRUE

\* outer select: case <-l.closeCh
WriterSeeClose ==
    /\ wpc = "select"
    /\ ~draining
    /\ closeCh
    /\ IF DrainOnClose
       THEN /\ draining' = TRUE
            /\ UNCHANGED <<wpc, doneCh>>
       ELSE /\ wpc' = "exited"
            /\ doneCh' = TRUE
            /\ UNCHANGED draining
    /\ UNCHANGED <<file, buf, handle, openErr, opens, nextSeq, appendCh,
                   closeCh, closed, fileOpen, writerErr, cur, curErr, cpc,
                   creq, resultCh, kpc, kret, histVars,
                   engVars, pureVars, tokVars, runVars>>

\* drain loop: case req := <-l.appendCh
WriterDrainRecv ==
    /\ wpc = "select"
    /\ draining
    /\ appendCh # <<>>
    /\ cur' = Dequeue(appendCh).req
    /\ appendCh' = Dequeue(appendCh).rest
    /\ wpc' = "process"
    /\ UNCHANGED <<file, buf, handle, openErr, opens, nextSeq, closeCh,
                   doneCh, closed, fileOpen, writerErr, draining, curErr,
                   cpc, creq, resultCh, kpc, kret, histVars,
                   engVars, pureVars, tokVars, runVars>>

\* drain loop: default: return (the deferred close(l.doneCh) runs)
\* default: the queue is drained; close(l.doneCh); return.  The goroutine
\* has ended.
AfterDrain_Loop == "select"
AfterDrain == "exited"

\* The drain loop's select takes default when no request is ready.
NoneReady_Never(ch) == FALSE
NoneReady(ch) == ch = <<>>

WriterReturn ==
    /\ wpc = "select"
    /\ draining
    /\ NoneReady(appendCh)
    /\ wpc' = AfterDrain
    /\ doneCh' = TRUE
    /\ UNCHANGED <<file, buf, handle, openErr, opens, nextSeq, appendCh,
                   closeCh, closed, fileOpen, writerErr, draining, cur,
                   curErr, cpc, creq, resultCh, kpc, kret, histVars,
                   engVars, pureVars, tokVars, runVars>>

\* --------------------------------------------------------- processRequest
\* seq := l.nextSeq; l.nextSeq++
NextSeqAfter_Same(n) == n
NextSeqAfter(n) == n + 1

\* bufio.Writer.Flush without error: the buffered bytes reach the file.
Flush_Keep(f, b) == [file |-> f, buf |-> b]
Flush_Drop(f, b) == [file |-> f, buf |-> <<>>]
Flush(f, b) == [file |-> f \o b, buf |-> <<>>]

\* Outcomes of the write done by Flush: "ok"; "fail": error, no byte
\* written; "torn": error after part of the line was written.
IOOutcomes == {"ok", "fail", "torn"}

\* l.encoder.Encode writes the encoded line to the bufio.Writer, whose
\* Write returns its stored error once a flush has failed.
WriteFails_Retry(werr) == FALSE
WriteFails(werr) == werr

processRequest ==
    /\ wpc = "process"
    /\ nextSeq' = NextSeqAfter(nextSeq)
    /\ assigned' = [assigned EXCEPT ![cur] = nextSeq]
    /\ wpc' = "reply"
    /\ IF ~enc[cur] \/ WriteFails(writerErr)
       THEN \* l.encoder.Encode fails: nothing reaches the buffer
            /\ curErr' = "encode"
            /\ failed' = TRUE
            /\ behindFail' = behindFail \cup Range(appendCh)
            /\ UNCHANGED <<file, buf, writerErr>>
       ELSE \E io \in IOOutcomes :
            LET b == Append(buf, EventLine(cur, nextSeq)) IN
            CASE io = "ok" ->
                   /\ file' = Flush(file, b).file
                   /\ buf' = Flush(file, b).buf
                   /\ curErr' = "nil"
                   /\ UNCHANGED <<writerErr, failed, behindFail>>
              [] io = "fail" ->
                   /\ buf' = b
                   /\ writerErr' = TRUE
                   /\ curErr' = "flush"
                   /\ failed' = TRUE
                   /\ behindFail' = behindFail \cup Range(appendCh)
                   /\ UNCHANGED file
              [] io = "torn" ->
                   /\ file' = Append(file, BadLine)
                   /\ buf' = b
                   /\ writerErr' = TRUE
                   /\ curErr' = "flush"
                   /\ failed' = TRUE
                   /\ behindFail' = behindFail \cup Range(appendCh)
    /\ UNCHANGED <<handle, openErr, opens, appendCh, closeCh, doneCh, closed,
                   fileOpen, draining, cur, cpc, creq, resultCh, kpc, kret,
                   issued, enc, ev, ret, enq, pred, queuedAtClose, fresh, sess,
                   startedShut, kafter,
                   engVars, pureVars, tokVars, runVars>>

\* Where the writer goes after it has sent the result err of a request:
\* back to its select, whatever the result.
AfterReply_StopOnError(err) == IF err = "nil" THEN "select" ELSE "exited"
AfterReply(err) == "select"

\* req.resultCh: the reply channel carried by the request itself.
ReplyChannel_First(r) == 1
ReplyChannel(r) == r

\* r.resultCh <- err (the channel has one free slot: never blocks)
WriterReply ==
    /\ wpc = "reply"
    /\ resultCh' = [resultCh EXCEPT ![ReplyChannel(cur)] = curErr]
    /\ cur' = 0
    /\ curErr' = "nil"
    /\ wpc' = AfterReply(curErr)
    /\ UNCHANGED <<file, buf, handle, openErr, opens, nextSeq, appendCh,
                   closeCh, doneCh, closed, fileOpen, writerErr, draining,
                   cpc, creq, kpc, kret, histVars,
                   engVars, pureVars, tokVars, runVars>>

\* ----------------------------------------------------------------- Close
\* l.closed.CompareAndSwap(false, true): TRUE when this call wins.
CompareAndSwap_Always(flag) == TRUE
CompareAndSwap(flag) == ~flag

CloseStart(k) ==
    /\ handle = "open"
    /\ kpc[k] = "idle"
    /\ kafter' = [kafter EXCEPT ![k] = CloseReturned]
    /\ IF CompareAndSwap(closed)
       THEN /\ closed' = TRUE
            /\ kpc' = [kpc EXCEPT ![k] = "signal"]
            /\ queuedAtClose' = Range(appendCh)
            /\ UNCHANGED kret
       ELSE /\ kpc' = [kpc EXCEPT ![k] = "done"]
            /\ kret' = [kret EXCEPT ![k] = "already"]
            /\ UNCHANGED <<closed, queuedAtClose>>
    /\ UNCHANGED <<file, buf, handle, openErr, opens, nextSeq, appendCh,
                   closeCh, doneCh, fileOpen, writerErr, wpc, draining, cur,
                   curErr, cpc, creq, resultCh, issued, enc, ev, ret, assigned,
                   enq, pred, fresh, failed, behindFail, sess, startedShut,
                   engVars, pureVars, tokVars, runVars>>

\* close(l.closeCh)
CloseSignal(k) ==
    /\ kpc[k] = "signal"
    /\ closeCh' = TRUE
    /\ kpc' = [kpc EXCEPT ![k] = "wait"]
    /\ UNCHANGED <<file, buf, handle, openErr, opens, nextSeq, appendCh,
                   doneCh, closed, fileOpen, writerErr, wpc, draining, cur,
                   curErr, cpc, creq, resultCh, kret, histVars,
                   engVars, pureVars, tokVars, runVars>>

\* <-l.doneCh: the receive goes through once the writer has closed doneCh.
Received_NoWait(ch) == TRUE
Received(ch) == ch

\* <-l.doneCh; l.writer.Flush(); l.file.Close()
CloseFinish(k) ==
    /\ kpc[k] = "wait"
    /\ Received(doneCh)
    /\ kpc' = [kpc EXCEPT ![k] = "done"]
    /\ IF writerErr
       THEN /\ kret' = [kret EXCEPT ![k] = "flusherr"]
            /\ UNCHANGED <<file, buf, fileOpen>>
       ELSE /\ kret' = [kret EXCEPT ![k] = "nil"]
            /\ file' = Flush(file, buf).file
            /\ buf' = Flush(file, buf).buf
            /\ fileOpen' = FALSE
    /\ UNCHANGED <<handle, openErr, opens, nextSeq, appendCh, closeCh,
                   doneCh, closed, writerErr, wpc, draining, cur, curErr,
                   cpc, creq, resultCh, histVars,
                   engVars, pureVars, tokVars, runVars>>

\* ------------------------------------------------------- process stop
\* The process stops without Close: every goroutine and the EventLog are
\* gone, bytes still in the bufio buffer are lost, the file stays.
Crash ==
    /\ handle = "open"
    /\ opens < MaxOpens
    /\ handle' = "none"
    /\ buf' = <<>>
    /\ nextSeq' = 0
    /\ appendCh' = <<>>
    /\ closeCh' = FALSE
    /\ doneCh' = FALSE
    /\ closed' = FALSE
    /\ fileOpen' = FALSE
    /\ writerErr' = FALSE
    /\ wpc' = "none"
    /\ draining' = FALSE
    /\ cur' = 0
    /\ curErr' = "nil"
    /\ cpc' = [c \in AllCallers |-> "idle"]
    /\ creq' = [c \in AllCallers |-> 0]
    /\ resultCh' = [r \in ReqIds |-> "empty"]
    /\ kpc' = [k \in Closers |-> "idle"]
    /\ kret' = [k \in Closers |-> "none"]
    /\ ret' = [r \in ReqIds |-> IF ret[r] = "pending" THEN "lost" ELSE ret[r]]
    /\ queuedAtClose' = {}
    /\ kafter' = [k \in Closers |-> FALSE]
    /\ UNCHANGED <<file, openErr, opens, issued, enc, ev, assigned, enq, pred,
                   fresh, failed, behindFail, sess, startedShut,
                   engVars, pureVars, tokVars, runVars>>

Next ==
    \/ OpenEventLog
    \/ \E c \in Callers : AppendStart(c)
    \/ \E c \in Callers : AppendEnqueue(c)
    \/ \E c \in Callers : AppendClosing(c)
    \/ \E c \in Callers : AppendReturn(c)
    \/ WriterRecv
    \/ WriterSeeClose
    \/ WriterDrainRecv
    \/ WriterReturn
    \/ processRequest
    \/ WriterReply
    \/ \E k \in Closers : CloseStart(k)
    \/ \E k \in Closers : CloseSignal(k)
    \/ \E k \in Closers : CloseFinish(k)
    \/ Crash

Spec == Init /\ [][Next]_vars

\* The life cycle of a log on which no Append* is called: open a file found
\* on disk, close it or stop, open it again.
NextOpen ==
    \/ OpenEventLog
    \/ WriterSeeClose
    \/ WriterReturn
    \/ \E k \in Closers : CloseStart(k)
    \/ \E k \in Closers : CloseSignal(k)
    \/ \E k \in Closers : CloseFinish(k)
    \/ Crash

SpecOpen == Init /\ [][NextOpen]_vars

\* One goroutine appending events of every type, one after the other, to a
\* log opened on an absent or empty file.
InitEvents == Init /\ file = <<>>

NextEvents ==
    \/ OpenEventLog
    \/ AppendEvent(1)
    \/ AppendEnqueue(1)
    \/ AppendReturn(1)
    \/ WriterRecv
    \/ processRequest
    \/ WriterReply

SpecEvents == InitEvents /\ [][NextEvents]_vars

\* One goroutine starting steps, one after the other, on a log opened on an
\* absent or empty file.
NextSteps ==
    \/ OpenEventLog
    \/ AppendStepStarted(1)
    \/ AppendEnqueue(1)
    \/ AppendReturn(1)
    \/ WriterRecv
    \/ processRequest
    \/ WriterReply

SpecSteps == InitEvents /\ [][NextSteps]_vars

\* More goroutines appending run.started than the queue has slots, and one
\* goroutine closing the log, on a log opened on an absent or empty file.
NextQueue ==
    \/ OpenEventLog
    \/ \E c \in QueueCallers : AppendRunStarted(c)
    \/ \E c \in QueueCallers : AppendEnqueue(c)
    \/ \E c \in QueueCallers : AppendClosing(c)
    \/ \E c \in QueueCallers : AppendReturn(c)
    \/ WriterRecv
    \/ WriterSeeClose
    \/ WriterDrainRecv
    \/ WriterReturn
    \/ processRequest
    \/ WriterReply
    \/ CloseStart(1)
    \/ CloseSignal(1)
    \/ CloseFinish(1)

SpecQueue == InitEvents /\ [][NextQueue]_vars

\* One goroutine recording artifacts on a log opened on an absent or empty
\* file; the log is closed, or the process stops, and the log is opened
\* again.
NextResume ==
    \/ OpenEventLog
    \/ AppendArtifactCreated(1)
    \/ AppendEnqueue(1)
    \/ AppendClosing(1)
    \/ AppendReturn(1)
    \/ WriterRecv
    \/ WriterSeeClose
    \/ WriterDrainRecv
    \/ WriterReturn
    \/ processRequest
    \/ WriterReply
    \/ CloseStart(1)
    \/ CloseSignal(1)
    \/ CloseFinish(1)
    \/ Crash

SpecResume == InitEvents /\ [][NextResume]_vars

\* Callers and Close calls racing on a log opened on an absent or empty
\* file, in a process that keeps running.
NextShutdown ==
    \/ OpenEventLog
    \/ \E c \in Callers : AppendStart(c)
    \/ \E c \in Callers : AppendEnqueue(c)
    \/ \E c \in Callers : AppendClosing(c)
    \/ \E c \in Callers : AppendReturn(c)
    \/ WriterRecv
    \/ WriterSeeClose
    \/ WriterDrainRecv
    \/ WriterReturn
    \/ processRequest
    \/ WriterReply
    \/ \E k \in Closers : CloseStart(k)
    \/ \E k \in Closers : CloseSignal(k)
    \/ \E k \in Closers : CloseFinish(k)

SpecShutdown == InitEvents /\ [][NextShutdown]_vars

\* The Go scheduler runs every goroutine that can take a step: the writer
\* goroutine and a goroutine inside Close.  Callers are free to stop
\* calling, and to be slow.
FairSpecShutdown ==
    /\ SpecShutdown
    /\ WF_vars(WriterRecv)
    /\ WF_vars(WriterSeeClose)
    /\ WF_vars(WriterDrainRecv)
    /\ WF_vars(WriterReturn)
    /\ WF_vars(processRequest)
    /\ WF_vars(WriterReply)
    /\ \A k \in Closers : WF_vars(CloseSignal(k))
    /\ \A k \in Closers : WF_vars(CloseFinish(k))

\* The functions of the Phase type and the step formatters, applied to
\* every pair of phase values.
InitPhase ==
    /\ InitLogEngine /\ file = <<>>
    /\ pa \in PhaseVals /\ pb \in PhaseVals /\ pres = Unapplied
    /\ InitTokenStorage /\ lastSaved = 0
    /\ InitRuns

NextPhase ==
    \/ ApplyIsValidTransition
    \/ ApplyFormatStep
    \/ ApplyStringParse
    \/ ApplyMarshalUnmarshal
    \/ ApplyUnmarshalNumber
    \/ ApplyUnmarshalInto

SpecPhase == InitPhase /\ [][NextPhase]_vars

\* OpenEventLog(r, root): 1 for a new file, else scanLastSeq + 1.
OpenRunLog(r) ==
    /\ ~mopen[r]
    /\ scanLastSeq(mfiles[LogPath(r)]).err = 0
    /\ mopen' = [mopen EXCEPT ![r] = TRUE]
    /\ mnext' = [mnext EXCEPT ![r] = ResumeSeq(mfiles[LogPath(r)])]
    /\ UNCHANGED <<mfiles, mq, mclosed, mreqs, eventLogVars, engVars,
                   pureVars, tokVars>>

\* An Append* call on run r's log, up to the send on appendCh.
AppendRun(r) ==
    /\ mopen[r] /\ ~mclosed[r]
    /\ mreqs[r] < MaxReqs
    /\ Len(mq[r]) < QueueCap
    /\ mreqs' = [mreqs EXCEPT ![r] = @ + 1]
    /\ mq' = [mq EXCEPT ![r] = Append(@, mreqs[r] + 1)]
    /\ UNCHANGED <<mfiles, mopen, mnext, mclosed, eventLogVars, engVars,
                   pureVars, tokVars>>

\* The writer of run r's log takes a request: processRequest writes and
\* flushes the line with l.nextSeq and advances l.nextSeq.
WriteRun(r) ==
    /\ mopen[r] /\ mq[r] # <<>>
    /\ mfiles' = [mfiles EXCEPT
                    ![LogPath(r)] = Append(@, RunLine(r, mnext[r]))]
    /\ mnext' = [mnext EXCEPT ![r] = @ + 1]
    /\ mq' = [mq EXCEPT ![r] = Tail(@)]
    /\ UNCHANGED <<mopen, mclosed, mreqs, eventLogVars, engVars, pureVars,
                   tokVars>>

\* Close on run r's log: the flag is set; the writer drains what is
\* queued.
CloseRun(r) ==
    /\ mopen[r] /\ ~mclosed[r]
    /\ mclosed' = [mclosed EXCEPT ![r] = TRUE]
    /\ UNCHANGED <<mfiles, mopen, mnext, mq, mreqs, eventLogVars, engVars,
                   pureVars, tokVars>>

\* The logs of several runs.
NextRuns ==
    \E r \in RunArgs :
        \/ OpenRunLog(r)
        \/ AppendRun(r)
        \/ WriteRun(r)
        \/ CloseRun(r)

SpecRuns == InitEvents /\ [][NextRuns]_vars

\* Token storage alone.
NextToken ==
    \/ \E s \in Savers :
         \/ SaveStart(s)
         \/ SaveCreateTemp(s)
         \/ SaveWrite(s)
         \/ SaveClose(s)
         \/ SaveChmod(s)
         \/ SaveRename(s)
         \/ SaveCleanup(s)
         \/ SaveKilled(s)
    \/ LoadStat
    \/ LoadRead

InitToken ==
    /\ InitLogEngine /\ file = <<>>
    /\ pa = MinPhase /\ pb = MinPhase /\ pres = Unapplied
    /\ InitTokenStorage
    /\ InitRuns

SpecToken == InitToken /\ [][NextToken]_vars

\* The engine: goroutines calling StartRun and the run loop.  No step of
\* the engine opens or appends to an event log.
NextEngine ==
    \/ \E s \in Starters : StartRun(s)
    \/ \E s \in Starters : StartRunSend(s)
    \/ handleStartRun
    \/ \E s \in Starters : StartRunReturn(s)

SpecEngine == InitEvents /\ [][NextEngine]_vars

\* The Go scheduler runs every goroutine that can take a step, and a
\* goroutine blocked in a send on a full channel is served in turn when
\* slots come free.  Callers are free never to call StartRun.
FairSpecEngine ==
    /\ SpecEngine
    /\ WF_vars(handleStartRun)
    /\ \A s \in Starters : SF_vars(StartRunSend(s))
    /\ \A s \in Starters : WF_vars(StartRunReturn(s))

\* ============================================================ properties
\* Helpers over the recorded history.
Pos(q, x) == CHOOSE i \in 1..Len(q) : q[i] = x
LinesOf(r) == {i \in 1..Len(file) : file[i].id = r}
Written(r) == LinesOf(r) # {}
Answered(r) == resultCh[r] # "empty" \/ ret[r] \in {"nil", "encode", "flush"}
AllReturned == \A r \in ReqIds : ret[r] \in Returned \cup {"unissued"}
Dense(f) == \A i \in 1..Len(f) : f[i].json /\ f[i].seq = i
\* Lines scanLastSeq must reject: not JSON, seq missing or <= 0, or seq not
\* above the seq of the line before.
Offending(f) ==
    {i \in 1..Len(f) :
        \/ ~f[i].json
        \/ f[i].seq <= 0
        \/ (i > 1 /\ f[i].seq <= f[i - 1].seq)}
Min(S) == CHOOSE x \in S : \A y \in S : x <= y

\* C1: on a log opened on an absent or empty file, while no append has
\* failed, the lines of the file carry seq 1, 2, ..., k from top to bottom,
\* under every interleaving of the callers.
C1_DenseSeqFresh ==
    (fresh /\ opens = 1 /\ ~failed) => Dense(file)

C1_Witness ==
    /\ fresh /\ opens = 1 /\ ~failed
    /\ Len(file) = 2
    /\ \E a, b \in ReqIds : a # b /\ a \notin pred[b] /\ b \notin pred[a]
                            /\ Written(a) /\ Written(b)

\* C2: no caller is left waiting on its reply channel with its request
\* sitting in the queue after the writer goroutine has exited.
C2_NoCallerStranded ==
    \A c \in Callers :
        ~(cpc[c] = "wait" /\ wpc = "exited" /\ creq[c] \in Range(appendCh))

\* C3: with no encode or I/O failure, once Close has returned and every
\* Append* call has returned, each call that returned nil has exactly one
\* line in the file and each call that returned an error has none.
C3_LinesMatchNilReturns ==
    (CloseReturned /\ AllReturned /\ ~failed) =>
        \A r \in ReqIds :
            Cardinality(LinesOf(r)) = IF ret[r] = "nil" THEN 1 ELSE 0

C3_Witness ==
    /\ CloseReturned /\ AllReturned /\ ~failed
    /\ \E a, b \in ReqIds : ret[a] = "nil" /\ ret[b] = "closing"

\* C4: after a fresh open, N successful appends and a shutdown, the next
\* open of the same file succeeds and sets next_seq to N+1, and the file
\* keeps dense seq 1..k through the appends of the second session.
C4_ReopenResumes ==
    /\ [][(ShutDown /\ fresh /\ ~failed /\ opens' = opens + 1) =>
             /\ handle' = "open"
             /\ nextSeq' = Len(file) + 1
         ]_vars
    /\ []((fresh /\ ~failed /\ opens >= 2 /\ handle = "open") =>
            (Dense(file) /\ nextSeq = Len(file) + 1))

\* C5: a nil reply is sent only after the event's line, carrying the seq
\* assigned to the request, is in the file; the line is still there after
\* the process has stopped.
C5_NilOnlyAfterFlush ==
    \A r \in ReqIds :
        (resultCh[r] = "nil" \/ ret[r] = "nil") =>
            /\ assigned[r] > 0
            /\ \E i \in 1..Len(file) : file[i] = EventLine(r, assigned[r])

C5_Witness ==
    /\ handle = "none" /\ opens = 1
    /\ \E r \in ReqIds : ret[r] = "nil" /\ Written(r)

\* C6: once the writer has signalled doneCh (only then can Close flush and
\* close the file), every request that was in the queue when Close was
\* called has been answered, and has its line in the file unless an encode
\* or flush failed.
C6_QueuedAtCloseDrained ==
    (doneCh \/ CloseReturned) =>
        \A r \in queuedAtClose :
            /\ assigned[r] > 0
            /\ Answered(r)
            /\ (~failed => Written(r))

C6_Witness ==
    /\ CloseReturned /\ ~failed
    /\ Cardinality(queuedAtClose) = QueueCap
    /\ \A r \in queuedAtClose : Written(r)

\* C7: an Append* call that starts after Close has returned returns the
\* closed-log error at once: nothing is enqueued, and the file, the buffer
\* and next_seq are unchanged.
C7_AppendAfterClose ==
    [][(issued' = issued + 1 /\ CloseReturned) =>
          /\ ret'[issued + 1] = "closed"
          /\ UNCHANGED <<cpc, creq, file, buf, nextSeq, appendCh, enq, wpc>>
      ]_vars

C7_Witness ==
    \E r \in startedShut : ret[r] = "closed" /\ assigned[r] = 0

\* C8: the Close call that finds the closed flag clear starts the shutdown;
\* a Close call that finds it set returns "log already closed" and changes
\* nothing of the file, the queue or the writer.
C8_CloseIdempotent ==
    [][\A k \in Closers :
          (kpc[k] = "idle" /\ kpc'[k] # "idle") =>
              IF closed
              THEN /\ kpc'[k] = "done" /\ kret'[k] = "already"
                   /\ UNCHANGED <<file, buf, nextSeq, appendCh, closeCh,
                                  doneCh, closed, fileOpen, wpc, draining,
                                  cur>>
              ELSE closed' /\ kpc'[k] = "signal"
      ]_vars

C8_Witness ==
    \E k1, k2 \in Closers :
        /\ kret[k1] = "nil" /\ kpc[k1] = "done"
        /\ kafter[k2] /\ kret[k2] = "already" /\ kpc[k2] = "done"

\* C9: lines appear in the file in the order their requests were enqueued
\* and with increasing seq; of two calls that both wrote a line, one that
\* started after the other had returned carries the larger seq.
C9_FifoOrder ==
    /\ \A i, j \in 1..Len(file) :
          (/\ file[i].id # 0 /\ file[j].id # 0
           /\ Pos(enq, file[i].id) < Pos(enq, file[j].id)) =>
              (i < j /\ file[i].seq < file[j].seq)
    /\ \A b \in ReqIds : \A a \in pred[b] :
          (Written(a) /\ Written(b)) => assigned[a] < assigned[b]

C9_Witness ==
    \E a, b \in ReqIds :
        /\ a > b /\ Written(a) /\ Written(b)
        /\ sess[a] = sess[b]
        /\ Pos(enq, a) < Pos(enq, b)
        /\ assigned[a] < assigned[b]

\* C10: an open of a non-empty file that has an offending line fails with
\* the number of the first such line; no EventLog and no writer goroutine
\* exist afterwards and the file is unchanged.
C10_OpenRejectsBadSeq ==
    [][(opens' = opens + 1 /\ Offending(file) # {}) =>
          /\ openErr' = Min(Offending(file))
          /\ handle' = "none"
          /\ wpc' = "none"
          /\ file' = file
      ]_vars

C10_Witness ==
    /\ opens = 1 /\ handle = "none" /\ openErr = 2
    /\ Len(file) = 2 /\ file[1].json /\ file[2].json
    /\ file[1].seq > 0 /\ file[2].seq > 0 /\ file[2].seq <= file[1].seq

C12_NoGapAfterFailure ==
    \A i \in 1..Len(file) :
        file[i].id # 0 =>
            file[i].seq = (IF i = 1 THEN 0 ELSE file[i - 1].seq) + 1

\* The result e of request r's processRequest, from the moment it is
\* computed to the return of the call.
GotResult(r, e) ==
    \/ (wpc = "reply" /\ cur = r /\ curErr = e)
    \/ resultCh[r] = e
    \/ ret[r] = e

\* C13: the writer sends the result of a request on that request's reply
\* channel only and goes back to its select whatever the result; a request
\* that can be encoded gets an error only from the writer's own I/O error,
\* never from another request's encode failure; the writer exits only on
\* the close signal, and by then every request that was queued behind a
\* failed one has been dequeued and answered.
C13_FailureIsolated ==
    /\ [][(wpc = "reply" /\ wpc' # "reply" /\ handle' = "open") =>
             /\ resultCh' = [resultCh EXCEPT ![cur] = curErr]
             /\ wpc' = "select"
             /\ UNCHANGED <<appendCh, ret, nextSeq>>
         ]_vars
    /\ [](wpc = "exited" => closeCh)
    /\ [](\A r \in ReqIds :
            (handle = "open" /\ sess[r] = opens /\ enc[r]
             /\ (GotResult(r, "encode") \/ GotResult(r, "flush"))) =>
                writerErr)
    /\ [](\A r \in behindFail :
            (handle = "open" /\ sess[r] = opens /\ wpc = "exited") =>
                (assigned[r] > 0 /\ Answered(r)))

C13_Witness ==
    \E f, r \in ReqIds :
        /\ r \in behindFail /\ sess[f] = sess[r]
        /\ ~enc[f] /\ ret[f] = "encode"
        /\ assigned[f] < assigned[r]
        /\ ret[r] = "nil" /\ Written(r)
        /\ wpc = "exited"

\* C14: within one EventLog, once the flush of a request has failed, no
\* request processed after it gets a nil result, and none writes a line.
C14_NoSuccessAfterFlushError ==
    \A f, r \in ReqIds :
        (/\ GotResult(f, "flush")
         /\ sess[r] = sess[f]
         /\ (assigned[r] > assigned[f] \/ f \in pred[r])) =>
            (~GotResult(r, "nil") /\ ~Written(r))

C14_Witness ==
    \E f, r \in ReqIds :
        /\ ret[f] = "flush" /\ sess[r] = sess[f]
        /\ f \in pred[r] /\ enc[r]
        /\ ret[r] = "encode"

\* The event type and the phase of a line written by an append.
TypeOf(line) == IF line.id = 0 THEN "none" ELSE line.typ
PhaseOf(line) == IF line.id = 0 THEN 0 ELSE line.phase
StepStartedLines == {i \in 1..Len(file) : TypeOf(file[i]) = "step.started"}

\* C15: a run.finished or run.failed line is the last line of the file: no
\* append adds a line after it.
C15_NothingAfterTerminal ==
    \A i \in 1..Len(file) :
        TypeOf(file[i]) \in {"run.finished", "run.failed"} => i = Len(file)

\* The result of StartRun call k, once the run loop has sent it.
ResOf(k) ==
    IF sret[k] # NoResult THEN sret[k]
    ELSE IF startCh[k] # <<>> THEN Head(startCh[k])
    ELSE NoResult
\* The run loop takes a command off cmdCh in this step.
HandleStep == cmdCh # <<>> /\ cmdCh' = Tail(cmdCh)
\* Call k has been sent and taken off cmdCh.
Handled(k) ==
    /\ croot[k] # NoRoot
    /\ k \notin Range(cmdCh)
    /\ ~\E s \in Starters : scall[s] = k /\ spc[s] = "send"
\* Roots that are empty, relative, or name nothing that exists.
BadRoots == {"", "  ", "ws", "/missing", "/dangling"}

\* C16: when StartRun has returned a run ID without error, the run's event
\* log is open and its first line is a run.started event with seq 1.
C16_StartRunLogsRunStarted ==
    \A k \in CallIds :
        sret[k].Err = "nil" =>
            /\ handle = "open"
            /\ Len(file) >= 1
            /\ TypeOf(file[1]) = "run.started"
            /\ file[1].seq = 1

\* C17: a StartRun command whose root is empty, relative or non-existent is
\* answered with an error and the empty run ID, and handling it leaves the
\* run-handle table as it was.
C17_BadRootRejected ==
    /\ [][(HandleStep /\ croot[Head(cmdCh)] \in BadRoots) =>
             /\ runs' = runs
             /\ epc' = epc
             /\ Len(startCh'[Head(cmdCh)]) = 1
             /\ startCh'[Head(cmdCh)][1].ID = NoId
             /\ startCh'[Head(cmdCh)][1].Err # "nil"
         ]_vars
    /\ [](\A k \in CallIds :
            (croot[k] \in BadRoots /\ sret[k] # NoResult) =>
                (sret[k].ID = NoId /\ sret[k].Err # "nil"))

C17_Witness ==
    \E a, b \in CallIds :
        /\ sret[a].Err = "nil" /\ runs[sret[a].ID] # NoHandle
        /\ croot[b] = "/missing" /\ sret[b] = Result(NoId, "doesn't exist")
        /\ Cardinality({id \in RunIds : runs[id] # NoHandle}) = 1

\* C18: no two successful StartRun calls get the same run ID; every handle
\* sits in the table under its own ID and is never replaced or removed; a
\* generated ID that is already in the table stops the engine and leaves
\* the table and the reply channels untouched.
C18_RunIdsUnique ==
    /\ [](\A a, b \in CallIds :
            (a # b /\ ResOf(a).Err = "nil" /\ ResOf(b).Err = "nil") =>
                ResOf(a).ID # ResOf(b).ID)
    /\ [](\A id \in RunIds : runs[id] # NoHandle => runs[id].ID = id)
    /\ [](\A k \in CallIds :
            ResOf(k).Err = "nil" => runs[ResOf(k).ID] # NoHandle)
    /\ [][\A id \in RunIds : runs[id] # NoHandle => runs'[id] = runs[id]]_vars
    /\ [][(HandleStep /\ gen' # NoId /\ runs[gen'] # NoHandle) =>
             (epc' = "panicked" /\ UNCHANGED <<runs, startCh>>)]_vars

C18_Witness ==
    /\ epc = "panicked"
    /\ gen # NoId /\ runs[gen] # NoHandle
    /\ \E a, b \in CallIds :
          /\ sret[a] = Result(gen, "nil")
          /\ Handled(b) /\ ResOf(b) = NoResult
          /\ croot[a] = "/link" /\ runs[gen] = RunHandle(gen, "/ws")

\* Roots that pass validation, and the absolute symlink-free path each
\* names.
GoodRoots == Roots \ BadRoots
NormalizedRoot == "/ws"

\* C31: a step of the run loop that answers a command without error adds
\* exactly one handle to the run table, under the ID in the answer, with
\* phase data_ingestion, terminal false, last_seq 0, empty attempts and
\* phase-done maps and the normalized root, and changes no other entry.
C31_StartRunAddsOneHandle ==
    [][\A k \in CallIds :
         (startCh'[k] # startCh[k] /\ startCh[k] = <<>>
          /\ startCh'[k][1].Err = "nil") =>
            LET id == startCh'[k][1].ID IN
            /\ id \in RunIds
            /\ runs[id] = NoHandle
            /\ runs'[id].ID = id
            /\ runs'[id].Phase = 1
            /\ runs'[id].Terminal = FALSE
            /\ runs'[id].LastSeq = 0
            /\ DOMAIN runs'[id].Attempts = {}
            /\ DOMAIN runs'[id].PhaseDone = {}
            /\ croot[k] \in GoodRoots
            /\ runs'[id].WorkspaceRoot = NormalizedRoot
            /\ \A o \in RunIds \ {id} : runs'[o] = runs[o]]_vars

\* The second successful StartRun, on a root given through a symlink.
C31_Witness ==
    \E a, b \in CallIds :
        /\ a # b
        /\ sret[a].Err = "nil" /\ sret[b].Err = "nil"
        /\ croot[b] = "/link"
        /\ runs[sret[a].ID].ID = sret[a].ID
        /\ runs[sret[b].ID].WorkspaceRoot = NormalizedRoot

\* The process stopped without Close after a successful open, and the log
\* has not been opened since.
Stopped == handle = "none" /\ opens >= 1 /\ openErr = 0
\* Every line of the file is a complete JSON line.
CompleteLines(f) == \A i \in 1..Len(f) : f[i].json

\* C32: when the process has stopped without Close and the file holds only
\* complete lines, the next open succeeds with next_seq = (seq of the last
\* line) + 1, above every seq in the file; the complete lines of a file
\* the log was opened on carry strictly increasing seqs, and every append
\* acknowledged with nil keeps its line through the stop and the reopen.
C32_ResumeAfterStop ==
    /\ [][(Stopped /\ CompleteLines(file) /\ opens' = opens + 1) =>
             /\ handle' = "open" /\ openErr' = 0
             /\ file' = file
             /\ nextSeq' = IF Len(file) = 0 THEN 1
                           ELSE file[Len(file)].seq + 1
             /\ \A i \in 1..Len(file) : file[i].seq < nextSeq'
         ]_vars
    /\ []((opens >= 1 /\ openErr = 0) =>
            \A i, j \in 1..Len(file) :
                (i < j /\ file[i].json /\ file[j].json) =>
                    file[i].seq < file[j].seq)
    /\ [](\A r \in ReqIds : ret[r] = "nil" => Written(r))

\* A Close call passes <-l.doneCh and does its final flush in this step.
CloseFinishStep == \E k \in Closers : kpc[k] = "wait" /\ kpc'[k] = "done"
\* The writer task encodes and flushes in this step.
WriterWriteStep == wpc = "process" /\ wpc' = "reply"

\* C33: Close does its final flush and closes the file only after the
\* writer task has exited; the writer task encodes and flushes only while
\* the file is open and no Close call has got past doneCh; within one
\* EventLog the buffer and the file change only in a step of one of the
\* two, never of both.
C33_WriterOwnsFile ==
    [][(opens' = opens /\ handle' = handle) =>
          /\ CloseFinishStep => (wpc = "exited" /\ wpc' = "exited")
          /\ (fileOpen /\ ~fileOpen') => (CloseFinishStep /\ wpc = "exited")
          /\ WriterWriteStep =>
                /\ fileOpen /\ ~doneCh
                /\ \A k \in Closers :
                      kpc[k] = "done" => kret[k] = "already"
          /\ (file' # file \/ buf' # buf) =>
                (CloseFinishStep \/ WriterWriteStep)
          /\ ~(CloseFinishStep /\ WriterWriteStep)]_vars

\* Close has flushed and closed the file after the writer, while draining,
\* wrote a request that was queued when Close was called.
C33_Witness ==
    /\ CloseReturned /\ ~fileOpen /\ wpc = "exited"
    /\ \E k \in Closers : kret[k] = "nil"
    /\ \E r \in queuedAtClose : Written(r) /\ ret[r] = "nil"

\* C34: while a log is open, next_seq is positive and above the seq of
\* every line of the file, and no two lines carry the same seq; within one
\* EventLog next_seq changes only in the writer's processRequest step, and
\* every such step adds exactly 1.
C34_NextSeqAboveFile ==
    /\ [](handle = "open" =>
            /\ nextSeq > 0
            /\ \A i \in 1..Len(file) : file[i].json => file[i].seq < nextSeq
            /\ \A i, j \in 1..Len(file) :
                  (i # j /\ file[i].json /\ file[j].json) =>
                      file[i].seq # file[j].seq)
    /\ [][(opens' = opens /\ handle' = handle) =>
             /\ nextSeq' >= nextSeq
             /\ nextSeq' # nextSeq => WriterWriteStep
             /\ WriterWriteStep => nextSeq' = nextSeq + 1
         ]_vars

\* A log opened on a file that held one line with seq 2 has written seq 3.
C34_Witness ==
    /\ handle = "open" /\ nextSeq = 4
    /\ Len(file) = 2
    /\ file[1] = OldLine(2)
    /\ file[2].id # 0 /\ file[2].seq = 3

\* The writer sends a reply in this step.
WriterReplyStep == wpc = "reply" /\ wpc' # "reply"

\* C35: the writer's reply for the request it dequeued goes on that
\* request's reply channel, which is empty at that moment (the send never
\* blocks), and on no other; a reply channel gets a value only in that
\* step and never a second one; whenever the writer is back in its select
\* or has exited, every request it dequeued has its reply.
C35_OneReplyNeverBlocks ==
    /\ [][(opens' = opens /\ handle' = handle) =>
             /\ WriterReplyStep =>
                   /\ cur \in ReqIds
                   /\ resultCh[cur] = "empty"
                   /\ ret[cur] = "pending"
                   /\ resultCh'[cur] = curErr
                   /\ \A o \in ReqIds \ {cur} : resultCh'[o] = resultCh[o]
             /\ \A r \in ReqIds :
                   (resultCh[r] = "empty" /\ resultCh'[r] # "empty") =>
                       (WriterReplyStep /\ cur = r)
         ]_vars
    /\ []((handle = "open" /\ wpc \in {"select", "exited"}) =>
            \A r \in ReqIds :
                (sess[r] = opens /\ assigned[r] > 0) => Answered(r))

\* The writer has exited; the reply to a request it wrote while draining
\* still sits in the reply channel, and another call has returned nil.
C35_Witness ==
    /\ wpc = "exited"
    /\ \E r \in queuedAtClose : resultCh[r] = "nil" /\ ret[r] = "pending"
    /\ \E r \in ReqIds : ret[r] = "nil"

\* The Close calls that won the closed flag of the open log.
Winners == {k \in Closers : kpc[k] # "idle" /\ kret[k] # "already"}

\* C36: of the Close calls made on one log exactly one wins the closed flag;
\* the close signal is raised once, by the winner; every other call returns
\* the already-closed error; the file is closed once, by the winner, and is
\* closed when the winner has returned.
C36_OneCloseWins ==
    /\ [](handle = "open" =>
            /\ Cardinality(Winners) = (IF closed THEN 1 ELSE 0)
            /\ \A k \in Closers :
                  (kpc[k] = "done" /\ k \notin Winners) => kret[k] = "already"
            /\ \A k \in Winners : kpc[k] = "done" => ~fileOpen)
    /\ [][(opens' = opens /\ handle' = handle) =>
             /\ closeCh' # closeCh =>
                   /\ ~closeCh
                   /\ \E k \in Winners : kpc[k] = "signal" /\ kpc'[k] = "wait"
             /\ fileOpen' # fileOpen =>
                   /\ fileOpen
                   /\ \E k \in Winners : kpc[k] = "wait" /\ kpc'[k] = "done"
         ]_vars

\* C37: under fair scheduling a Close call that has won the closed flag
\* returns, also while callers race to enqueue.
C37_CloseReturns ==
    \A k \in Closers : (kpc[k] = "signal") ~> (kpc[k] = "done")

\* The winning Close has returned nil after the writer drained a queued
\* request while another call lost the race and got the closing error.
C37_Witness ==
    /\ \E k \in Closers : kpc[k] = "done" /\ kret[k] = "nil"
    /\ \E r \in queuedAtClose : Written(r)
    /\ \E r \in ReqIds : ret[r] = "closing"

\* C19: the run-handle table changes only in a step of the run loop that
\* takes the oldest command off cmdCh; unless the engine stops on an ID
\* collision, that step sends exactly one result on that command's reply
\* channel and no channel ever gets a second one; under fair scheduling
\* every StartRun call returns unless the engine has stopped.
C19_OneReplyPerCommand ==
    /\ [][runs' # runs => HandleStep]_vars
    /\ [][HandleStep =>
             \/ epc' = "panicked"
             \/ nreplies' = [nreplies EXCEPT ![Head(cmdCh)] = 1]]_vars
    /\ [](\A k \in CallIds : nreplies[k] <= 1)
    /\ [](\A k \in CallIds :
            (Handled(k) /\ epc = "running") => nreplies[k] = 1)
    /\ \A k \in CallIds :
          (croot[k] # NoRoot) ~> (sret[k] # NoResult \/ epc = "panicked")

C19_Witness ==
    /\ epc = "running" /\ calls = MaxStarts /\ cmdCh = <<>>
    /\ \A k \in CallIds : sret[k] # NoResult /\ nreplies[k] = 1
    /\ \E a, b \in CallIds : sret[a].Err = "nil" /\ sret[b].Err # "nil"

\* C20: of two step.started lines with no step.started line between them,
\* the later one repeats the phase of the earlier one or moves one phase
\* forward: a skipping or backward step.started append writes nothing.
C20_StepTransitionsValid ==
    \A i, j \in StepStartedLines :
        (i < j /\ ~\E k \in StepStartedLines : i < k /\ k < j) =>
            IsValidTransition(PhaseOf(file[i]), PhaseOf(file[j]))

\* Paths that, resolved against the workspace root /ws, lie outside it.
EscapingPaths == {"../escape.txt", "/etc/passwd"}

\* C22: no artifact.created line carries a path that resolves outside the
\* run's workspace root: an append with such a path writes nothing.
C22_ArtifactsContained ==
    \A i \in 1..Len(file) :
        TypeOf(file[i]) = "artifact.created" =>
            file[i].path \notin EscapingPaths

\* C23: for valid phases from and to, IsValidTransition returns true
\* exactly when to = from or to = from + 1.
C23_TransitionRule ==
    (pres.trans # NoRes /\ IsValid(pa) /\ IsValid(pb)) =>
        /\ pres.trans.st = "ok"
        /\ pres.trans.val <=> (pb = pa \/ pb = pa + 1)

C23_Witness ==
    /\ pa = 2 /\ pb = 4
    /\ pres.trans = [st |-> "ok", val |-> FALSE]

\* C25: FormatStepStarted, FormatStepFinished and FormatStepFailed abort
\* on every phase that is not one of the four valid phases (zero, negative,
\* above 4).
C25_FormatRejectsInvalidPhase ==
    \A t \in StepTypes :
        (pres.fmt[t] # NoRes /\ ~IsValid(pa)) => pres.fmt[t].st = "panic"

\* C38: when Phase.UnmarshalJSON returns an error (unknown string, number
\* outside 1..4, neither string nor number) the target keeps the value it
\* had before the call.
C38_FailedDecodeKeepsTarget ==
    (pres.into # NoRes /\ pres.into.st = "err") =>
        pres.into.after = pres.into.before

\* C26: for every valid phase p, ParsePhase(p.String()) is p, unmarshalling
\* the marshalled p gives p, the marshalled form is the JSON string of the
\* phase's name and never a number, and unmarshalling the number p gives p.
C26_PhaseRoundTrips ==
    IsValid(pa) =>
        /\ pres.rt # NoRes => pres.rt = [st |-> "ok", phase |-> pa, str |-> ""]
        /\ pres.marshal # NoRes =>
              /\ pres.marshal = [st |-> "ok", json |-> JString(PhaseNames[pa])]
              /\ pres.jrt = [st |-> "ok", phase |-> pa, str |-> ""]
        /\ pres.unnum # NoRes =>
              pres.unnum = [st |-> "ok", phase |-> pa, str |-> ""]

C26_Witness ==
    /\ pa = 3
    /\ pres.rt.st = "ok" /\ pres.jrt.st = "ok" /\ pres.unnum.st = "ok"
    /\ pres.marshal.json = JString("risk_validation")

\* C28: the token file is absent or holds a complete token, never part of
\* one; it changes only by a save's rename, to that save's complete token;
\* when a save returns, the token file holds its token and its temp file
\* is gone; a load then returns the token of the last save that returned.
C28_AtomicSave ==
    [][/\ disk'[FinalPath] = Absent \/ Complete(disk'[FinalPath])
       /\ disk'[FinalPath] # disk[FinalPath] =>
             \E s \in Savers : tpc[s] = "rename" /\ tpc'[s] = "idle"
       /\ \A s \in Savers :
             (tpc[s] = "rename" /\ tpc'[s] = "idle") =>
                 /\ disk'[FinalPath] = Data(ttok[s], TokenLen)
                 /\ disk'[tpath[s]] = Absent
       /\ (lpc = "read" /\ lpc' = "idle") =>
             lret' = [st |-> "ok", tok |-> lastSaved]]_vars

C28_Witness ==
    /\ tpc[1] = "idle" /\ tpc[2] = "panicked" /\ nsaves = 2
    /\ lastSaved = 2
    /\ disk[FinalPath] = Data(2, TokenLen)
    /\ disk[1] = Absent /\ disk[2] = Data(1, 1)
    /\ lret = [st |-> "ok", tok |-> 2]

\* The lines run r's log file holds.
RunFile(r) == mfiles[LogPath(r)]

\* C27: a step of one run's log (open, append, write, close) leaves the
\* file, next_seq, queue and closed flag of every other run unchanged, and
\* a run's numbering starts at 1 whatever the other runs have written.
C27_RunsIndependent ==
    [][\A r \in RunArgs :
         /\ (~mopen[r] /\ mopen'[r]) => mnext'[r] = 1
         /\ <<mopen[r], mnext[r], mq[r], mclosed[r], mreqs[r]>> #
              <<mopen'[r], mnext'[r], mq'[r], mclosed'[r], mreqs'[r]>> =>
                \A o \in RunArgs \ {r} :
                    /\ RunFile(o)' = RunFile(o)
                    /\ mnext'[o] = mnext[o]
                    /\ mq'[o] = mq[o]
                    /\ mclosed'[o] = mclosed[o]]_vars

C27_Witness ==
    /\ RunFile("run-A") = <<RunLine("run-A", 1), RunLine("run-A", 2)>>
    /\ mclosed["run-A"]
    /\ RunFile("run-B") = <<RunLine("run-B", 1)>>
    /\ ~mclosed["run-B"] /\ mq["run-B"] # <<>>

\* The places of request r in the record of enqueued requests.
EnqueuedAt(r) == {i \in 1..Len(enq) : enq[i] = r}

\* C29: the queue never holds more than its capacity; a call that ended
\* with the closed or closing error enqueued nothing, every other call that
\* ended was enqueued exactly once, and no request is enqueued twice.
C29_BoundedQueue ==
    /\ Len(appendCh) <= QueueCap
    /\ \A i, j \in 1..Len(enq) : enq[i] = enq[j] => i = j
    /\ \A r \in ReqIds :
         /\ ret[r] \in {"closed", "closing"} => EnqueuedAt(r) = {}
         /\ ret[r] \in Returned \ {"closed", "closing"} =>
               Cardinality(EnqueuedAt(r)) = 1

\* The queue is full with the first two requests; the third call, which
\* could not enqueue, has ended with the closing error.
C29_Witness ==
    /\ Len(appendCh) = QueueCap
    /\ \A i \in 1..Len(appendCh) : appendCh[i] < MaxQueueReqs
    /\ ret[MaxQueueReqs] = "closing"
    /\ EnqueuedAt(MaxQueueReqs) = {}

\* C30: within one EventLog, once the writer has exited it stays exited,
\* assigns no sequence number and writes nothing; once Close has returned
\* the file does not change.
C30_ClosedIsTerminal ==
    [][(opens' = opens /\ handle' = handle) =>
          /\ wpc = "exited" =>
                /\ wpc' = "exited"
                /\ nextSeq' = nextSeq /\ assigned' = assigned
                /\ file' = file /\ buf' = buf
          /\ CloseReturned => file' = file]_vars

\* A request enqueued after the writer has exited stays in the queue.
C30_Witness ==
    /\ wpc = "exited" /\ CloseReturned
    /\ appendCh # <<>>
    /\ file # <<>>

\* C24: every line written by an append carries the type tag of the
\* Append* operation that was called, the seq the writer assigned to the
\* request, and the run ID, phase and path the caller passed.
C24_LineMatchesRequest ==
    \A i \in 1..Len(file) :
        file[i].id # 0 =>
            LET r == file[i].id IN
            /\ file[i].typ = ev[r].typ
            /\ file[i].typ \in EventTypes
            /\ file[i].seq = assigned[r]
            /\ file[i].run = ev[r].run
            /\ file[i].phase = ev[r].phase
            /\ file[i].path = ev[r].path

C24_Witness ==
    /\ Len(file) = 2
    /\ file[1].id # 0 /\ file[2].id # 0
    /\ ev[file[1].id] = Payload("step.failed", "run-A", 2, "")
    /\ ev[file[2].id] = Payload("artifact.created", "run-B", 0, "sub/ok.txt")
    /\ file[1].seq = 1 /\ file[2].seq = 2

\* The limit on step.started events of one phase in a run.
MaxAttempts == 3

\* C21: the file never holds more than three step.started lines of one
\* phase: a fourth step.started append for a phase writes nothing.
C21_AttemptsBounded ==
    \A ph \in MinPhase..MaxPhase :
        Cardinality({i \in StepStartedLines : PhaseOf(file[i]) = ph})
            <= MaxAttempts

TypeOK ==
    /\ handle \in {"none", "open"}
    /\ wpc \in {"none", "select", "process", "reply", "exited"}
    /\ Len(appendCh) <= QueueCap
    /\ issued \in 0..Cardinality(ReqIds)
    /\ opens \in 0..MaxOpens
====
